---- MODULE Spec2Model ----
(***************************************************************************)
(* A model of data_scripts/vix-spy-average.py: the strategy simulator      *)
(* (implement_strategy), the two objective functions, the control flow of  *)
(* main() around the two SLSQP optimizations, and the module's scheduling  *)
(* loop.                                                                   *)
(*                                                                         *)
(* Numbers.  A float cell of a frame is <<v>> (a number) or <<>> (NaN).    *)
(* Daily returns are in basis points (0.01 is <<100>>), allocations in     *)
(* hundredths (1.0 is 100, 0.2 is 20), so a portfolio return is in units   *)
(* of 10^-6 (0.006 is <<6000>>).  A volatility reading is a record         *)
(* [whole, frac]: 35.99 is [whole |-> 35, frac |-> 99].                    *)
(*                                                                         *)
(* Frames.  A frame is a record of columns indexed by the dates 1..n; a    *)
(* column the frame does not have is the empty sequence.                   *)
(***************************************************************************)
EXTENDS Integers, Sequences, FiniteSets

VARIABLES
    spy_df,      \* the caller's SPY frame (its 'Daily Return' column and what was added)
    vix_df,      \* the caller's VIX frame: the 'Adj Close' readings by date
    copy_df,     \* the object made by spy_df.copy() for the last call
    call,        \* the last call of the simulator or of an objective function
    spy0,        \* history: spy_df as first loaded
    vix0,        \* history: vix_df as first loaded
    prev,        \* history: the objective call before the last one
    pc,          \* main(): the statement it is at
    initial_strategy,
    bounds,
    result_annual,
    result_monthly_volatility,
    optimal_strategy_annual,
    optimal_strategy_monthly_volatility,
    output,      \* main(): what it has printed, exported or plotted, in order
    now,         \* scheduling: the clock, in slots
    sched        \* scheduling: the process, the job list and what has run

strategyVars == <<spy_df, vix_df, copy_df, call, spy0, vix0, prev>>
mainVars == <<pc, initial_strategy, bounds, result_annual, result_monthly_volatility,
              optimal_strategy_annual, optimal_strategy_monthly_volatility, output>>
schedVars == <<now, sched>>
vars == <<strategyVars, mainVars, schedVars>>

----------------------------------------------------------------------------
(* Bounds of the model *)

\* The longest series, in trading days.
MaxDays == 3

\* The last day of the scheduling clock; the process starts on day 0.
MaxDay == 2

\* Trading days per calendar month in the model's calendar.
DaysPerMonth == 2

----------------------------------------------------------------------------
(* Program constants *)

\* range(37): the levels 0..36.
NumLevels == 37

\* if i == 36: the level tested with >=.
TopLevel == 36

\* 1 + returns: the return 1.0, in basis points.
ReturnOne == 10000

\* len(returns) / 252
TradingDays == 252

\* The fraction 1.0, in hundredths: the default SPY allocation, and the 1 of
\* 1 - allocation.
One == 100

\* bounds = [(0.01, 0.99) ...], in hundredths.
LowerBound == 1

UpperBound == 99

----------------------------------------------------------------------------
(* Float cells *)

NaN == <<>>

Num(v) == <<v>>

IsNaN(c) == c = NaN

\* cell * number, cell - cell: NaN propagates.
Times(c, k) == IF IsNaN(c) THEN NaN ELSE Num(c[1] * k)

Minus(a, b) == IF IsNaN(a) \/ IsNaN(b) THEN NaN ELSE Num(a[1] - b[1])

----------------------------------------------------------------------------
(* Frames *)

Absent == <<>>

Levels == 0..(NumLevels - 1)

Reading(w, f) == [whole |-> w, frac |-> f]

\* vix_df['Adj Close'] == i
ReadingEq(r, i) == r.whole = i /\ r.frac = 0

\* vix_df['Adj Close'] >= i
ReadingGe(r, i) == r.whole >= i

\* A frame holding only the 'Daily Return' column.
Frame(returns) ==
    [DailyReturn |-> returns, SPYAllocation |-> Absent, SHAllocation |-> Absent,
     VIXLevel |-> Absent, PortfolioReturn |-> Absent]

Dates(df) == DOMAIN df.DailyReturn

\* spy_df[col] = value: the column is created or overwritten on every date.
Fill(df, value) == [d \in Dates(df) |-> value]

\* spy_df['SPY Allocation'] = 1.0
DefaultRisky == One

\* spy_df['SH Allocation'] = 0.0
DefaultHedge == 0

\* spy_df['VIX Level'] = 0
DefaultLevel == 0

\* The defaults written before the loop.
WithDefaults(df) ==
    [df EXCEPT !.SPYAllocation = Fill(df, DefaultRisky),
               !.SHAllocation = Fill(df, DefaultHedge),
               !.VIXLevel = Fill(df, DefaultLevel)]

\* Faulty variant: the reading is floored before it is compared.
LevelTestFloored(r, i) == IF i = TopLevel THEN r.whole >= i ELSE r.whole = i

\* The mask of level i, on a date whose reading is r: >= for level 36, == below.
LevelTest(r, i) == IF i = TopLevel THEN ReadingGe(r, i) ELSE ReadingEq(r, i)

\* .loc[mask, ...] aligns the mask, which has the VIX frame's dates, to the
\* frame's index and raises IndexingError when a date of the frame has no
\* entry in the mask; dates only the mask has are dropped.
Alignable(df, vix) == Dates(df) \subseteq DOMAIN vix

\* allocation = strategy[i]
RiskyAllocation(strategy, i) == strategy[i]

\* Faulty variant: the SH Allocation assignment of the loop is missing.
HedgeAllocationStale(allocation) == DefaultHedge

\* 1 - allocation
HedgeAllocation(allocation) == One - allocation

\* The three .loc assignments of iteration i, on one date: row is the date's
\* (SPY Allocation, SH Allocation, VIX Level), r its reading.
ApplyLevel(row, r, strategy, i) ==
    IF LevelTest(r, i)
    THEN [SPYAllocation |-> RiskyAllocation(strategy, i),
          SHAllocation |-> HedgeAllocation(RiskyAllocation(strategy, i)),
          VIXLevel |-> i]
    ELSE row

\* for i in range(37): ..., on one date.
RECURSIVE LevelLoop(_, _, _, _)
LevelLoop(row, r, strategy, i) ==
    IF i = NumLevels THEN row
    ELSE LevelLoop(ApplyLevel(row, r, strategy, i), r, strategy, i + 1)

RowOf(df, d) ==
    [SPYAllocation |-> df.SPYAllocation[d], SHAllocation |-> df.SHAllocation[d],
     VIXLevel |-> df.VIXLevel[d]]

\* The loop over the whole frame: every date's row goes through the 37
\* iterations with that date's reading.
WithLevels(df, vix, strategy) ==
    LET rows == [d \in Dates(df) |-> LevelLoop(RowOf(df, d), vix[d], strategy, 0)]
    IN [df EXCEPT !.SPYAllocation = [d \in Dates(df) |-> rows[d].SPYAllocation],
                  !.SHAllocation = [d \in Dates(df) |-> rows[d].SHAllocation],
                  !.VIXLevel = [d \in Dates(df) |-> rows[d].VIXLevel]]

\* Faulty variant: the hedge leg is left out.
PortfolioReturnLongOnly(dailyReturn, risky, hedge) == Times(dailyReturn, risky)

\* spy_df['Portfolio Return'] = DailyReturn * SPYAllocation - DailyReturn * SHAllocation
PortfolioReturnOf(dailyReturn, risky, hedge) ==
    Minus(Times(dailyReturn, risky), Times(dailyReturn, hedge))

WithPortfolioReturn(df) ==
    [df EXCEPT !.PortfolioReturn =
        [d \in Dates(df) |->
            PortfolioReturnOf(df.DailyReturn[d], df.SPYAllocation[d], df.SHAllocation[d])]]

\* implement_strategy(spy_df, vix_df, strategy): the three objects it was
\* passed (the frame df, the VIX frame vix, the table strategy) as the call
\* leaves them, and whether the call raised.  The first .loc of the loop
\* raises when the mask cannot be aligned; the defaults are written by then.
ImplementStrategy(df, vix, strategy) ==
    LET defaults == WithDefaults(df)
    IN IF ~Alignable(df, vix)
       THEN [df |-> defaults, vix |-> vix, strategy |-> strategy, raised |-> TRUE]
       ELSE [df |-> WithPortfolioReturn(WithLevels(defaults, vix, strategy)),
             vix |-> vix, strategy |-> strategy, raised |-> FALSE]

----------------------------------------------------------------------------
(* Performance metrics.  A power and a standard deviation are not computed:  *)
(* a metric's value is the record of what it is computed from, so two values *)
(* are equal when they are computed from the same numbers.                   *)

\* returns.dropna(), as the dates kept.
DropNa(column) == {d \in DOMAIN column : ~IsNaN(column[d])}

\* 1 + x, for a portfolio return x in units of 10^-6.
OnePlus(c) == Num(ReturnOne * One + c[1])

\* The factors of (1 + returns).prod() over the dates ds, in date order.
RECURSIVE Factors(_, _, _)
Factors(column, ds, d) ==
    IF d > Len(column) THEN <<>>
    ELSE (IF d \in ds THEN <<OnePlus(column[d])>> ELSE <<>>) \o Factors(column, ds, d + 1)

\* calculate_annual_return(returns): cumulative_return ** (1 / num_years) - 1;
\* 1 / num_years raises ZeroDivisionError for an empty series.
AnnualReturn(column, ds) ==
    IF ds = {} THEN [raised |-> "ZeroDivisionError"]
    ELSE [raised |-> "none", metric |-> "annual_return",
          cumulative_return |-> Factors(column, ds, 1),
          num_years |-> <<Cardinality(ds), TradingDays>>]

\* The calendar month of a date.
MonthOf(d) == (d - 1) \div DaysPerMonth

\* returns.resample('M').apply(lambda x: (1 + x).prod() - 1): one bucket per
\* month from the first kept date's to the last kept date's.
MonthlyBuckets(column, ds) ==
    IF ds = {} THEN <<>>
    ELSE LET first == MonthOf(CHOOSE d \in ds : \A e \in ds : d <= e)
             last == MonthOf(CHOOSE d \in ds : \A e \in ds : d >= e)
         IN [m \in 1..(last - first + 1) |->
                Factors(column, {d \in ds : MonthOf(d) = first + m - 1}, 1)]

\* calculate_monthly_volatility(returns): monthly_returns.std()
MonthlyVolatility(column, ds) ==
    [raised |-> "none", metric |-> "monthly_volatility",
     monthly_returns |-> MonthlyBuckets(column, ds)]

\* return -annual_return
Negated(v) == IF v.raised = "none" THEN [v EXCEPT !.metric = "negated_annual_return"] ELSE v

----------------------------------------------------------------------------
(* Call sites.  Every caller passes spy_df.copy(): the simulator works on    *)
(* the object "copy", and the caller's frame is the object "spy_df".         *)

\* Faulty variant: the caller passes its own frame.
CallSiteFrameShared == "spy_df"

\* implement_strategy(spy_df.copy(), vix_df, strategy): the frame object passed.
CallSiteFrame == "copy"

\* Faulty variant: the simulator returns a copy of the frame it filled.
ReturnedFreshObject(arg) == "fresh"

\* return spy_df: the object returned is the parameter.
ReturnedObject(arg) == arg

NoCall == [fn |-> "none"]

ObjectiveNames == {"objective_function_annual_return", "objective_function_monthly_volatility"}

\* The frame object a call leaves behind: the simulator wrote to the object
\* arg, which is the caller's frame or the copy.
ObjectAfter(name, arg, written, old) == IF arg = name THEN written ELSE old

\* A direct call, as main() makes for its final passes.  The copy holds what
\* spy_df holds on entry.
CallImplementStrategy(strategy) ==
    \E arg \in {CallSiteFrame}, r \in {ImplementStrategy(spy_df, vix_df, strategy)} :
       /\ spy_df' = ObjectAfter("spy_df", arg, r.df, spy_df)
       /\ copy_df' = ObjectAfter("copy", arg, r.df, copy_df)
       /\ vix_df' = r.vix
       /\ call' = [fn |-> "implement_strategy", strategy |-> strategy,
                   strategy_after |-> r.strategy,
                   arg |-> arg, arg_before |-> spy_df,
                   raised |-> IF r.raised THEN "IndexingError" ELSE "none",
                   ret |-> IF r.raised THEN "none" ELSE ReturnedObject(arg)]
       /\ UNCHANGED <<spy0, vix0, prev>>

\* The value an objective computes from the simulated frame.
ObjectiveValue(fn, df) ==
    IF fn = "objective_function_annual_return"
    THEN Negated(AnnualReturn(df.PortfolioReturn, DropNa(df.PortfolioReturn)))
    ELSE MonthlyVolatility(df.PortfolioReturn, DropNa(df.PortfolioReturn))

\* objective_function_annual_return / objective_function_monthly_volatility
CallObjective(fn, strategy) ==
    \E arg \in {CallSiteFrame}, r \in {ImplementStrategy(spy_df, vix_df, strategy)} :
       /\ spy_df' = ObjectAfter("spy_df", arg, r.df, spy_df)
       /\ copy_df' = ObjectAfter("copy", arg, r.df, copy_df)
       /\ vix_df' = r.vix
       /\ call' = [fn |-> fn, strategy |-> strategy,
                   spy_before |-> spy_df, vix_before |-> vix_df,
                   value |-> IF r.raised THEN [raised |-> "IndexingError"]
                             ELSE ObjectiveValue(fn, r.df)]
       /\ prev' = IF call.fn \in ObjectiveNames THEN call ELSE prev
       /\ UNCHANGED <<spy0, vix0>>

----------------------------------------------------------------------------
(* Inputs *)

\* The daily returns 0.01, -0.01, 0.02, repeated.
ReturnCycle == <<100, -100, 200>>

\* A 'Daily Return' column of n days; pct_change leaves NaN on the first date.
ReturnsColumn(n, leadingNaN) ==
    [d \in 1..n |-> IF leadingNaN /\ d = 1 THEN NaN
                    ELSE Num(ReturnCycle[((d - 1) % Len(ReturnCycle)) + 1])]

\* The readings 5.0, 12.0, 35.99, 36.0, 40.0 and 500.0.
Readings == {Reading(5, 0), Reading(12, 0), Reading(35, 99), Reading(36, 0),
             Reading(40, 0), Reading(500, 0)}

\* The readings of the aligned frames: one at a level, one between levels and
\* one above the top level.
AlignedReadings == {Reading(12, 0), Reading(35, 99), Reading(40, 0)}

\* table[5] = 1.0, table[36] = 0.2, 0.5 elsewhere.
ScenarioTable == [i \in Levels |-> IF i = 5 THEN 100 ELSE IF i = 36 THEN 20 ELSE 50]

\* A table with a different entry at every level: 0.01, 0.03, ..., 0.73.
RampTable == [i \in Levels |-> 1 + 2 * i]

\* Always fully invested, and always fully hedged.
AllInTable == [i \in Levels |-> 100]

AllOutTable == [i \in Levels |-> 0]

Tables == {ScenarioTable, RampTable, AllInTable, AllOutTable}

MainIdle ==
    /\ pc = "idle"
    /\ initial_strategy = <<>>
    /\ bounds = <<>>
    /\ result_annual = <<>>
    /\ result_monthly_volatility = <<>>
    /\ optimal_strategy_annual = <<>>
    /\ optimal_strategy_monthly_volatility = <<>>
    /\ output = <<>>

SchedIdle ==
    /\ now = <<>>
    /\ sched = <<>>

\* No call has been made yet.
NotCalled ==
    /\ copy_df = Absent
    /\ call = NoCall
    /\ prev = NoCall
    /\ spy0 = spy_df
    /\ vix0 = vix_df

StrategyIdle ==
    /\ spy_df = Frame(<<>>)
    /\ vix_df = <<>>
    /\ NotCalled

\* The frames as loaded: of the same length, or one a day longer than the
\* other.
StrategyInit ==
    /\ \E n \in 1..MaxDays, leadingNaN \in BOOLEAN :
         /\ spy_df = Frame(ReturnsColumn(n, leadingNaN))
         /\ \E m \in {n - 1, n, n + 1} \cap 1..MaxDays : vix_df \in [1..m -> Readings]
    /\ NotCalled

\* The frames as prepare_data leaves them: aligned on the same dates.
AlignedInit ==
    /\ \E n \in 1..MaxDays, leadingNaN \in BOOLEAN :
         /\ spy_df = Frame(ReturnsColumn(n, leadingNaN))
         /\ vix_df \in [1..n -> AlignedReadings]
    /\ NotCalled

Init ==
    /\ StrategyInit
    /\ MainIdle
    /\ SchedIdle

Next ==
    \E strategy \in Tables :
        CallImplementStrategy(strategy) /\ UNCHANGED <<mainVars, schedVars>>

\* The simulator called on frames of equal and of different lengths.
Spec == Init /\ [][Next]_vars

\* The tables the objectives are called with.
ObjectiveTables == {ScenarioTable, RampTable}

ObjectiveInit ==
    /\ AlignedInit
    /\ MainIdle
    /\ SchedIdle

ObjectiveNext ==
    \/ \E strategy \in ObjectiveTables :
         /\ CallObjective("objective_function_annual_return", strategy)
         /\ UNCHANGED <<mainVars, schedVars>>
    \/ \E strategy \in ObjectiveTables :
         /\ CallObjective("objective_function_monthly_volatility", strategy)
         /\ UNCHANGED <<mainVars, schedVars>>

\* Any sequence of objective calls on one aligned pair of frames.
ObjectiveSpec == ObjectiveInit /\ [][ObjectiveNext]_vars

----------------------------------------------------------------------------
(* main() *)

\* The output that depends on the optimized tables; "plot_baseline" is the
\* curve of the initial table that plot_comparison_before_after and
\* plot_optimized_vs_non_optimized draw beside the optimized one.
DependentOutput ==
    {"print_optimal_allocations", "implement_strategy", "to_csv", "print_sharpe_ratio",
     "plots", "plot_baseline"}

\* SLSQP's diagnostic messages.
SuccessMessage == "Optimization terminated successfully"

FailureMessages == {"Iteration limit reached", "Positive directional derivative for linesearch"}

\* Faulty variant: the bounds are the whole unit interval.
BoundsUnitInterval(initial) == [i \in DOMAIN initial |-> <<0, One>>]

\* bounds = [(0.01, 0.99) for _ in range(len(initial_strategy))]
BoundsFor(initial) == [i \in DOMAIN initial |-> <<LowerBound, UpperBound>>]

\* A point moved into the box bnds.
Clip(x, bnds) ==
    [i \in DOMAIN x |->
        IF x[i] < bnds[i][1] THEN bnds[i][1]
        ELSE IF x[i] > bnds[i][2] THEN bnds[i][2] ELSE x[i]]

\* minimize(objective, initial_strategy, args, bounds=bounds, method='SLSQP'):
\* the results it may return.  The solver is not part of the repository: it
\* is taken to return a point of the box it was given, with or without
\* success, and a message.
Minimize(x0, bnds) ==
    {[success |-> TRUE, x |-> Clip(c, bnds), message |-> SuccessMessage] :
        c \in Tables \cup {x0}}
    \cup
    {[success |-> FALSE, x |-> Clip(c, bnds), message |-> m] :
        c \in {x0, RampTable}, m \in FailureMessages}

\* Faulty variant: a failed optimization is not acted on.
AbortsNever(result) == FALSE

\* if not result.success: print(..., result.message); return
Aborts(result) == ~result.success

Emit(kind, table) == output' = Append(output, [kind |-> kind, table |-> table])

\* main() up to the first optimization: the data is prepared, the initial
\* table is read from the strategy file and the bounds are built.
MainPrepare ==
    /\ pc = "start"
    /\ \E table \in Tables :
         /\ initial_strategy' = table
         /\ bounds' = BoundsFor(table)
    /\ pc' = "minimize_annual"
    /\ UNCHANGED <<result_annual, result_monthly_volatility, optimal_strategy_annual,
                   optimal_strategy_monthly_volatility, output, strategyVars>>

\* result_annual = minimize(objective_function_annual_return, ...)
MinimizeAnnual ==
    /\ pc = "minimize_annual"
    /\ result_annual' \in Minimize(initial_strategy, bounds)
    /\ pc' = "check_annual"
    /\ UNCHANGED <<initial_strategy, bounds, result_monthly_volatility,
                   optimal_strategy_annual, optimal_strategy_monthly_volatility, output,
                   strategyVars>>

\* if not result_annual.success: ...; optimal_strategy_annual = result_annual.x
CheckAnnual ==
    /\ pc = "check_annual"
    /\ IF Aborts(result_annual)
       THEN /\ Emit("print_failure", result_annual.message)
            /\ pc' = "returned"
            /\ UNCHANGED optimal_strategy_annual
       ELSE /\ optimal_strategy_annual' = result_annual.x
            /\ pc' = "minimize_monthly_volatility"
            /\ UNCHANGED output
    /\ UNCHANGED <<initial_strategy, bounds, result_annual, result_monthly_volatility,
                   optimal_strategy_monthly_volatility, strategyVars>>

\* result_monthly_volatility = minimize(objective_function_monthly_volatility, ...)
MinimizeMonthlyVolatility ==
    /\ pc = "minimize_monthly_volatility"
    /\ result_monthly_volatility' \in Minimize(initial_strategy, bounds)
    /\ pc' = "check_monthly_volatility"
    /\ UNCHANGED <<initial_strategy, bounds, result_annual, optimal_strategy_annual,
                   optimal_strategy_monthly_volatility, output, strategyVars>>

\* if not result_monthly_volatility.success: ...;
\* optimal_strategy_monthly_volatility = result_monthly_volatility.x
CheckMonthlyVolatility ==
    /\ pc = "check_monthly_volatility"
    /\ IF Aborts(result_monthly_volatility)
       THEN /\ Emit("print_failure", result_monthly_volatility.message)
            /\ pc' = "returned"
            /\ UNCHANGED optimal_strategy_monthly_volatility
       ELSE /\ optimal_strategy_monthly_volatility' = result_monthly_volatility.x
            /\ pc' = "print_allocations"
            /\ UNCHANGED output
    /\ UNCHANGED <<initial_strategy, bounds, result_annual, result_monthly_volatility,
                   optimal_strategy_annual, strategyVars>>

\* The two loops printing the optimal allocations.
PrintAllocations ==
    /\ pc = "print_allocations"
    /\ output' = output \o
          <<[kind |-> "print_optimal_allocations", table |-> optimal_strategy_annual],
            [kind |-> "print_optimal_allocations",
             table |-> optimal_strategy_monthly_volatility]>>
    /\ pc' = "simulate_annual"
    /\ UNCHANGED <<initial_strategy, bounds, result_annual, result_monthly_volatility,
                   optimal_strategy_annual, optimal_strategy_monthly_volatility,
                   strategyVars>>

\* spy_df_annual = implement_strategy(spy_df.copy(), vix_df, optimal_strategy_annual)
SimulateAnnual ==
    /\ pc = "simulate_annual"
    /\ CallImplementStrategy(optimal_strategy_annual)
    /\ Emit("implement_strategy", optimal_strategy_annual)
    /\ pc' = "simulate_monthly_volatility"
    /\ UNCHANGED <<initial_strategy, bounds, result_annual, result_monthly_volatility,
                   optimal_strategy_annual, optimal_strategy_monthly_volatility>>

\* spy_df_monthly_volatility = implement_strategy(spy_df.copy(), vix_df,
\*                                                optimal_strategy_monthly_volatility)
SimulateMonthlyVolatility ==
    /\ pc = "simulate_monthly_volatility"
    /\ CallImplementStrategy(optimal_strategy_monthly_volatility)
    /\ Emit("implement_strategy", optimal_strategy_monthly_volatility)
    /\ pc' = "report"
    /\ UNCHANGED <<initial_strategy, bounds, result_annual, result_monthly_volatility,
                   optimal_strategy_annual, optimal_strategy_monthly_volatility>>

\* The CSV exports, the Sharpe ratio and the plots, to the end of main(); the
\* plot functions simulate again on copies, the last of them in
\* plot_optimized_vs_non_optimized with the annual table.
Report ==
    /\ pc = "report"
    /\ output' = output \o
          <<[kind |-> "to_csv", table |-> optimal_strategy_annual],
            [kind |-> "to_csv", table |-> optimal_strategy_monthly_volatility],
            [kind |-> "print_sharpe_ratio", table |-> optimal_strategy_annual],
            [kind |-> "plots", table |-> optimal_strategy_annual],
            [kind |-> "plot_baseline", table |-> initial_strategy],
            [kind |-> "plots", table |-> optimal_strategy_annual],
            [kind |-> "plots", table |-> optimal_strategy_monthly_volatility],
            [kind |-> "plot_baseline", table |-> initial_strategy],
            [kind |-> "plots", table |-> optimal_strategy_annual]>>
    /\ CallImplementStrategy(optimal_strategy_annual)
    /\ pc' = "returned"
    /\ UNCHANGED <<initial_strategy, bounds, result_annual, result_monthly_volatility,
                   optimal_strategy_annual, optimal_strategy_monthly_volatility>>

\* The frames main() works on: prepare_data aligns them.
MainInit ==
    /\ StrategyInit
    /\ Len(spy_df.DailyReturn) = MaxDays
    /\ IsNaN(spy_df.DailyReturn[1])
    /\ vix_df \in {[d \in 1..MaxDays |-> Reading(12, 0)],
                   [d \in 1..MaxDays |-> IF d = 1 THEN Reading(35, 99) ELSE Reading(40, 0)]}
    /\ pc = "start"
    /\ initial_strategy = <<>>
    /\ bounds = <<>>
    /\ result_annual = <<>>
    /\ result_monthly_volatility = <<>>
    /\ optimal_strategy_annual = <<>>
    /\ optimal_strategy_monthly_volatility = <<>>
    /\ output = <<>>
    /\ SchedIdle

MainNext ==
    \/ MainPrepare /\ UNCHANGED schedVars
    \/ MinimizeAnnual /\ UNCHANGED schedVars
    \/ CheckAnnual /\ UNCHANGED schedVars
    \/ MinimizeMonthlyVolatility /\ UNCHANGED schedVars
    \/ CheckMonthlyVolatility /\ UNCHANGED schedVars
    \/ PrintAllocations /\ UNCHANGED schedVars
    \/ SimulateAnnual /\ UNCHANGED schedVars
    \/ SimulateMonthlyVolatility /\ UNCHANGED schedVars
    \/ Report /\ UNCHANGED schedVars

MainSpec == MainInit /\ [][MainNext]_vars

----------------------------------------------------------------------------
(* The scheduling loop.  The clock is <<day, slot>>: slot 1 is the day up to *)
(* 09:00, slot 2 is 09:00 to 15:30 and slot 3 is the rest of the day.  A     *)
(* daily job's next_run <<d, s>> is the instant slot s of day d starts; the  *)
(* clock is always inside its slot.                                          *)

\* every().day.at("09:00"): the slot that starts at 09:00.
At0900 == 2

\* every().day.at("15:30"), until("15:30"): the slot that starts at 15:30.
At1530 == 3

Day(t) == t[1]

Slot(t) == t[2]

Before(a, b) == a[1] < b[1] \/ (a[1] = b[1] /\ a[2] < b[2])

NextSlotOf(t) == IF Slot(t) = At1530 THEN <<Day(t) + 1, 1>> ELSE <<Day(t), Slot(t) + 1>>

Times3 == {<<d, s>> : d \in 0..MaxDay, s \in 1..At1530}

\* The next time the clock reads the daily time that starts slot s.
NextAt(t, s) == IF Slot(t) < s THEN <<Day(t), s>> ELSE <<Day(t) + 1, s>>

NoDeadline == <<>>

\* schedule.every().day.at(...).do(...)
DailyJob(name, t, s) ==
    [name |-> name, next_run |-> NextAt(t, s), waiting |-> FALSE,
     cancel_after |-> NoDeadline]

\* schedule.every(1).minute.until("15:30").do(fetch_and_update), made at t: it
\* waits a minute, and is not to run after 15:30 of the day it was made.
MinuteJob(t) ==
    [name |-> "fetch_every_minute", next_run |-> t, waiting |-> TRUE,
     cancel_after |-> <<Day(t), At1530>>]

\* Job.should_run: the clock has reached next_run.
ShouldRun(job, t) == ~job.waiting /\ ~Before(t, job.next_run)

\* Job._is_overdue(when), for the clock: when > cancel_after.
IsOverdueNow(job, t) ==
    job.cancel_after # NoDeadline /\ ~Before(t, job.cancel_after)

\* sorted(runnable_jobs): by next_run; a daily job's instant starts the slot
\* a minute job's instant lies in.
Earlier(a, b) ==
    \/ Before(a.next_run, b.next_run)
    \/ a.next_run = b.next_run /\ a.cancel_after = NoDeadline /\ b.cancel_after # NoDeadline

RECURSIVE Sorted(_)
Sorted(js) ==
    IF js = {} THEN <<>>
    ELSE LET first == CHOOSE j \in js : \A k \in js \ {j} : Earlier(j, k)
         IN <<first>> \o Sorted(js \ {first})

Range(seq) == {seq[k] : k \in DOMAIN seq}

\* Faulty variant: clear is given a tag that only the every-minute job carries.
ClearTagged(jobs) == SelectSeq(jobs, LAMBDA j : j.cancel_after = NoDeadline)

\* schedule.clear(): with no tag, del self.jobs[:].
Clear(jobs) == <<>>

\* Scheduler.cancel_job(job): the job is removed if it is still in the list.
CancelJob(jobs, name) == SelectSeq(jobs, LAMBDA j : j.name # name)

\* A job object's new next_run, stored if the job is still in the list.
Reschedule(jobs, name, next, waiting) ==
    [k \in DOMAIN jobs |->
        IF jobs[k].name = name
        THEN [jobs[k] EXCEPT !.next_run = next, !.waiting = waiting]
        ELSE jobs[k]]

\* Scheduler._run_job(job) at clock t.  st is the scheduler and what has
\* happened; nearClose says that a minute from now is past 15:30.
RunJob(st, job, t, nearClose) ==
    IF st.crashed THEN st
    ELSE IF IsOverdueNow(job, t)
    THEN [st EXCEPT !.jobs = CancelJob(@, job.name)]
    ELSE IF job.name = "register_0900"
    THEN \* the lambda: until("15:30") raises when 15:30 of today is past
         IF Slot(t) = At1530
         THEN [st EXCEPT !.crashed = TRUE]
         ELSE [st EXCEPT !.jobs = Reschedule(Append(@, MinuteJob(t)), job.name,
                                             NextAt(t, At0900), FALSE)]
    ELSE IF job.name = "clear_1530"
    THEN [st EXCEPT !.jobs = Clear(@), !.cleared = TRUE, !.clear_day = Day(t)]
    ELSE \* fetch_and_update, and the job is cancelled when its next run is
         \* past its deadline
         [st EXCEPT !.fetch_days = @ \cup {Day(t)},
                    !.jobs = IF nearClose THEN CancelJob(@, job.name)
                             ELSE Reschedule(@, job.name, t, TRUE)]

\* for job in sorted(runnable_jobs): self._run_job(job)
RECURSIVE RunJobs(_, _, _, _)
RunJobs(st, runnable, t, nearClose) ==
    IF runnable = <<>> THEN st
    ELSE RunJobs(RunJob(st, Head(runnable), t, nearClose), Tail(runnable), t, nearClose)

\* schedule.run_pending()
RunPending(st, t, nearClose) ==
    RunJobs(st, Sorted({j \in Range(st.jobs) : ShouldRun(j, t)}), t, nearClose)

\* A minute has gone by: the every-minute job is due.
MinutePassed(jobs) == [k \in DOMAIN jobs |-> [jobs[k] EXCEPT !.waiting = FALSE]]

\* The module is imported: the two daily jobs are registered.
Register ==
    /\ sched.pc = "import"
    /\ sched' = [sched EXCEPT
                   !.pc = "main",
                   !.registered = now,
                   !.jobs = <<DailyJob("register_0900", now, At0900),
                              DailyJob("clear_1530", now, At1530)>>]
    /\ UNCHANGED now

\* main() runs, for any length of time, and the loop is reached.
MainRuns ==
    /\ sched.pc = "main"
    /\ \E t \in Times3 :
         /\ ~Before(t, now)
         /\ now' = t
         /\ sched' = [sched EXCEPT !.pc = "loop", !.loop_start = t]

\* One iteration of the loop: run_pending(), then sleep(1); the clock stays in
\* its slot or, with advance, enters the next one.
LoopIteration ==
    /\ sched.pc = "loop"
    /\ \E advance \in BOOLEAN, minute \in BOOLEAN, nearClose \in BOOLEAN :
         \E st \in {RunPending(sched, now, nearClose /\ Slot(now) = At0900)} :
           IF st.crashed
           THEN /\ sched' = [st EXCEPT !.pc = "crashed"]
                /\ UNCHANGED now
           ELSE /\ advance => Day(NextSlotOf(now)) <= MaxDay
                /\ now' = IF advance THEN NextSlotOf(now) ELSE now
                /\ sched' = IF advance \/ minute
                            THEN [st EXCEPT !.jobs = MinutePassed(@)] ELSE st

SchedInit ==
    /\ StrategyIdle
    /\ MainIdle
    /\ now \in {<<0, s>> : s \in 1..At1530}
    /\ sched = [pc |-> "import", jobs |-> <<>>, crashed |-> FALSE, cleared |-> FALSE,
                clear_day |-> 0, fetch_days |-> {}, registered |-> <<>>,
                loop_start |-> <<>>]

SchedNext ==
    \/ Register /\ UNCHANGED <<strategyVars, mainVars>>
    \/ MainRuns /\ UNCHANGED <<strategyVars, mainVars>>
    \/ LoopIteration /\ UNCHANGED <<strategyVars, mainVars>>

SchedSpec == SchedInit /\ [][SchedNext]_vars

----------------------------------------------------------------------------
(* The simulator's claims, checked under Spec *)

\* The frame object the last call was passed, as the call left it.
ArgAfter == IF call.arg = "spy_df" THEN spy_df ELSE copy_df

Simulated == call.fn = "implement_strategy"

Returned == Simulated /\ call.raised = "none"

\* floor of a non-negative reading, clamped to 36.
FloorLevel(r) == IF r.whole >= TopLevel THEN TopLevel ELSE r.whole

\* A reading that satisfies none of the 37 tests: == i for i in 0..35, >= 36.
Unmatched(r) ==
    /\ ~ \E i \in 0..35 : r.whole = i /\ r.frac = 0
    /\ ~ (r.whole >= 36)

\* C1: on every date the level applied is min(floor(reading), 36) and the
\* risky allocation is the table's entry at that level (35.99 -> 35,
\* 36.0 and 500.0 -> 36, 12.0 -> 12).
C1_LevelIsClampedFloor ==
    Returned =>
        \A d \in Dates(ArgAfter) :
            /\ ArgAfter.VIXLevel[d] = FloorLevel(vix_df[d])
            /\ ArgAfter.SPYAllocation[d] = call.strategy[FloorLevel(vix_df[d])]

\* C3: a call with series of different lengths fails, and has written no
\* allocation, level or portfolio return for any date.
C3_MismatchFailsBeforeAnyWork ==
    (Simulated /\ Len(vix_df) # Len(call.arg_before.DailyReturn)) =>
        /\ call.raised # "none"
        /\ ArgAfter = call.arg_before

C5_HedgeIsComplement ==
    Simulated =>
        \A d \in DOMAIN ArgAfter.SPYAllocation :
            ArgAfter.SHAllocation[d] = One - ArgAfter.SPYAllocation[d]

\* A returned frame with a date at 0.2 / 0.8 and a date left at the defaults.
C5_Witness ==
    /\ Returned
    /\ \E d \in Dates(ArgAfter) :
         ArgAfter.SPYAllocation[d] = 20 /\ ArgAfter.SHAllocation[d] = 80
    /\ \E d \in Dates(ArgAfter) :
         Unmatched(vix_df[d]) /\ ArgAfter.SHAllocation[d] = 0

\* The frame of returns 0.01, -0.01, 0.02 with readings 5, 40, 5.
ScenarioInput ==
    /\ call.arg_before.DailyReturn = <<Num(100), Num(-100), Num(200)>>
    /\ vix_df = <<Reading(5, 0), Reading(40, 0), Reading(5, 0)>>
    /\ call.strategy[5] = 100
    /\ call.strategy[36] = 20

\* C6: on every date the portfolio return is
\* dailyReturn * riskyAllocation - dailyReturn * hedgeAllocation (NaN where the
\* daily return is NaN), and the scenario's returns are 0.01, 0.006, 0.02.
C6_PortfolioReturnFormula ==
    Returned =>
        /\ \A d \in Dates(ArgAfter) :
             LET r == ArgAfter.DailyReturn[d]
             IN IF r = NaN THEN ArgAfter.PortfolioReturn[d] = NaN
                ELSE ArgAfter.PortfolioReturn[d] =
                        <<r[1] * ArgAfter.SPYAllocation[d]
                            - r[1] * ArgAfter.SHAllocation[d]>>
        /\ (ScenarioInput =>
              ArgAfter.PortfolioReturn = <<Num(10000), Num(6000), Num(20000)>>)

\* The scenario has been simulated.
C6_Witness == Returned /\ ScenarioInput

\* C9: a date whose reading satisfies none of the 37 tests keeps SPY
\* Allocation 1.0, SH Allocation 0.0 and VIX Level 0, and its portfolio return
\* is the daily return.
C9_UnmatchedKeepsDefaults ==
    Returned =>
        \A d \in Dates(ArgAfter) :
            Unmatched(vix_df[d]) =>
                /\ ArgAfter.SPYAllocation[d] = 100
                /\ ArgAfter.SHAllocation[d] = 0
                /\ ArgAfter.VIXLevel[d] = 0
                /\ ArgAfter.PortfolioReturn[d] = Times(ArgAfter.DailyReturn[d], 100)

\* A reading of 35.99 simulated with a table whose entry at level 35 is not 1.0.
C9_Witness ==
    /\ Returned
    /\ \E d \in Dates(ArgAfter) :
         /\ vix_df[d] = Reading(35, 99)
         /\ call.strategy[35] # 100
         /\ ArgAfter.DailyReturn[d] # NaN

----------------------------------------------------------------------------
(* The claims about main(), checked under MainSpec *)

Failed(result) == result # <<>> /\ ~result.success

Succeeded(result) == result # <<>> /\ result.success

HasDependentOutput == \E k \in DOMAIN output : output[k].kind \in DependentOutput

\* The output made from a table taken from an optimization result.
OptimizedOutput == DependentOutput \ {"plot_baseline"}

\* C2: no dependent output is produced unless both optimizations reported
\* success; when either fails main prints the solver's message and returns
\* with nothing else produced, and the tables the output is made from are the
\* two results' (beside the initial table's curve in the comparison plots).
C2_NoOutputUnlessBothSucceeded ==
    /\ HasDependentOutput =>
         Succeeded(result_annual) /\ Succeeded(result_monthly_volatility)
    /\ Failed(result_annual) => result_monthly_volatility = <<>>
    /\ pc \in {"print_allocations", "simulate_annual", "simulate_monthly_volatility",
               "report"} =>
         Succeeded(result_annual) /\ Succeeded(result_monthly_volatility)
    /\ (pc = "returned" /\ Failed(result_annual)) =>
         output = <<[kind |-> "print_failure", table |-> result_annual.message]>>
    /\ (pc = "returned" /\ Failed(result_monthly_volatility)) =>
         output = <<[kind |-> "print_failure", table |-> result_monthly_volatility.message]>>
    /\ \A k \in DOMAIN output :
         /\ output[k].kind \in OptimizedOutput =>
               output[k].table \in {result_annual.x, result_monthly_volatility.x}
         /\ output[k].kind = "plot_baseline" => output[k].table = initial_strategy

\* main() has returned after the second optimization failed: the first
\* table is optimized, the second is not, and only the message was printed.
C2_Witness ==
    /\ pc = "returned"
    /\ Succeeded(result_annual)
    /\ Failed(result_monthly_volatility)
    /\ Len(output) = 1

InBounds(table) == \A i \in DOMAIN table : 1 <= table[i] /\ table[i] <= 99

\* C8: a (0.01, 0.99) bound is supplied for each entry of the initial table,
\* and every table main() takes from a result and uses has every entry in
\* [0.01, 0.99], also when the initial table has entries outside that range.
C8_OptimalTablesWithinBounds ==
    /\ pc # "start" =>
         /\ DOMAIN bounds = DOMAIN initial_strategy
         /\ \A i \in DOMAIN bounds : bounds[i] = <<1, 99>>
    /\ InBounds(optimal_strategy_annual)
    /\ InBounds(optimal_strategy_monthly_volatility)
    /\ \A k \in DOMAIN output :
         output[k].kind \in OptimizedOutput => InBounds(output[k].table)

\* Both tables were taken from results, starting from the table that is 1.0
\* at every level.
C8_Witness ==
    /\ pc = "returned"
    /\ ~InBounds(initial_strategy)
    /\ DOMAIN optimal_strategy_annual = Levels
    /\ DOMAIN optimal_strategy_monthly_volatility = Levels
    /\ optimal_strategy_monthly_volatility[0] = 99
    /\ HasDependentOutput

----------------------------------------------------------------------------
(* The claim about the objective functions, checked under ObjectiveSpec *)

ObjectiveCalled == call.fn \in ObjectiveNames

\* C7: the value an objective returns for a table depends only on the table:
\* the caller's frames are the same after a call as before it and as first
\* loaded, a call repeated with the same table returns the same value, and
\* every value is the one a first call on the frames as loaded returns.
C7_ObjectiveDependsOnlyOnTable ==
    ObjectiveCalled =>
        /\ spy_df = call.spy_before
        /\ vix_df = call.vix_before
        /\ spy_df = spy0
        /\ vix_df = vix0
        /\ (prev.fn = call.fn /\ prev.strategy = call.strategy) =>
              prev.value = call.value
        /\ call.value = ObjectiveValue(call.fn, ImplementStrategy(spy0, vix0, call.strategy).df)

\* The same objective was called twice with the same table, after a call
\* with another, and returned a value.
C7_Witness ==
    /\ ObjectiveCalled
    /\ prev.fn = call.fn
    /\ prev.strategy = call.strategy
    /\ call.value.raised = "none"
    /\ copy_df # spy_df

----------------------------------------------------------------------------
(* The claim about the scheduling loop, checked under SchedSpec *)

LoopReached == sched.loop_start # <<>>

====
